---- MODULE Spec2Model ----
(***************************************************************************)
(* Product metadata extraction (backend/metadata_agent.py).                *)
(*                                                                         *)
(* Python values are tagged records: None, Str(s), Float(h), Dict(d),      *)
(* Dataclass(d), List(l).  A str is a tuple of one-character strings, so   *)
(* that len(), lower() and the substring test are computed, not assumed.   *)
(* A float is kept as an integer number of hundredths (0.40 is Float(40)). *)
(* A dict is a function whose DOMAIN is the set of keys it holds.          *)
(***************************************************************************)
EXTENDS Integers, Sequences, FiniteSets, TLC

VARIABLES pc, response, extracted, result, metadata_json, validation, transcript,
          field_name, field_value, cleaned,
          url, page, scraped,
          runtime, vision,
          input_data, input_type,
          entry, ran,
          agents, checkpoints, calls,
          text_box, session_state, provided, scrape

vars == <<pc, response, extracted, result, metadata_json, validation, transcript,
          field_name, field_value, cleaned,
          url, page, scraped,
          runtime, vision,
          input_data, input_type,
          entry, ran,
          agents, checkpoints, calls,
          text_box, session_state, provided, scrape>>

(* ------------------------------------------------------------------ *)
(* Python values                                                      *)
(* ------------------------------------------------------------------ *)

None == [py |-> "None"]

Str(s) == [py |-> "str", s |-> s]

Float(h) == [py |-> "float", hundredths |-> h]

\* The text of a message: a str given as a tuple of segments, each either
\* Prose(chars), brace-free characters, or Braces(v), a brace-delimited span
\* together with what json.loads makes of it.
Text(segs) == [py |-> "str", segments |-> segs]

Prose(chars) == [braces |-> FALSE, chars |-> chars]

Braces(v) == [braces |-> TRUE, loads |-> v]

JSONDecodeError == [py |-> "JSONDecodeError"]

Dict(d) == [py |-> "dict", d |-> d]

List(l) == [py |-> "list", l |-> l]

\* An instance of the ProductMetadata dataclass: every field is an attribute.
Dataclass(d) == [py |-> "ProductMetadata", d |-> d]

IsStr(v) == v.py = "str"

IsDict(v) == v.py = "dict"

\* hasattr(v, "__dataclass_fields__")
IsDataclass(v) == v.py = "ProductMetadata"

\* Python truthiness: what `not v` and `if v` test.
Truthy(v) ==
    CASE v.py = "None" -> FALSE
      [] v.py = "str" -> IF "s" \in DOMAIN v THEN Len(v.s) > 0
                                              ELSE Len(v.segments) > 0
      [] v.py = "float" -> v.hundredths # 0
      [] v.py = "dict" -> DOMAIN v.d # {}
      [] v.py = "list" -> Len(v.l) > 0
      [] OTHER -> TRUE

\* dict.get(key) with the default None
Get(d, key) == IF key \in DOMAIN d THEN d[key] ELSE None

\* d[key] = value on a dict
Put(d, key, value) ==
    [k \in DOMAIN d \cup {key} |-> IF k = key THEN value ELSE d[k]]

(* ------------------------------------------------------------------ *)
(* ProductMetadata                                                    *)
(* ------------------------------------------------------------------ *)

optional_fields == <<"brand", "category", "color", "material", "dimensions">>

ProductMetadataFields ==
    {"title", "brand", "category", "color", "material", "dimensions",
     "description", "confidence_score"}

\* dataclasses.asdict: a dict with one key per field
asdict(v) == Dict([k \in ProductMetadataFields |-> v.d[k]])

(* ------------------------------------------------------------------ *)
(* MetadataExtractionAgent.extract                                    *)
(* ------------------------------------------------------------------ *)

\* What self.agent.invoke gave: a state mapping, or an exception.
Returned(v) == [kind |-> "return", value |-> v]

Raised(exc) == [kind |-> "raise", exc |-> exc]

\* A message object with a content attribute, and one without.
Message(c) == [attrs |-> {"content"}, content |-> c]

BareMessage == [attrs |-> {}]

\* Methods 1 and 2: the structured_response key, else the output key.
StructuredResult(resp) ==
    IF "structured_response" \in DOMAIN resp
    THEN IF IsDataclass(resp["structured_response"])
         THEN asdict(resp["structured_response"])
         ELSE resp["structured_response"]
    ELSE IF "output" \in DOMAIN resp
    THEN IF IsDict(resp["output"]) THEN resp["output"]
         ELSE IF IsDataclass(resp["output"]) THEN asdict(resp["output"])
         ELSE None
    ELSE None

\* re.search(r'\{[^{}]*(?:\{[^{}]*\}[^{}]*)*\}', content): the first
\* brace-delimited span of the text, or None.
json_match(content) ==
    LET hits == {i \in 1..Len(content.segments) : content.segments[i].braces}
    IN  IF hits = {} THEN None
        ELSE content.segments[CHOOSE i \in hits : \A j \in hits : i <= j]

\* json.loads(json_match.group(0)) inside try/except JSONDecodeError: pass
ParsedOr(res, content) ==
    LET m == json_match(content)
    IN  IF m = None THEN res
        ELSE IF m.loads = JSONDecodeError THEN res
        ELSE m.loads

\* Method 3, from the last message; a content that is no str makes re.search
\* raise TypeError.
LastMessageResult(resp, res) ==
    LET messages == IF "messages" \in DOMAIN resp THEN resp["messages"].l ELSE <<>>
    IN  IF Truthy(res) \/ Len(messages) = 0 THEN Returned(res)
        ELSE LET last_message == messages[Len(messages)]
             IN  IF "content" \notin last_message.attrs THEN Returned(res)
                 ELSE IF ~IsStr(last_message.content) THEN Raised("TypeError")
                 ELSE LET parsed == ParsedOr(res, last_message.content)
                      IN  IF ~Truthy(parsed)
                          THEN Returned(Dict([k \in {"raw_response"} |->
                                                last_message.content]))
                          ELSE Returned(parsed)

\* round(x, 2), x in ten-thousandths, the value in hundredths
Round2(x) == (x + 50) \div 100

\* the sum taken over title as well
filled_fields_with_title(d) ==
    Cardinality({f \in {"title", "brand", "category", "color", "material", "dimensions"} :
                    Truthy(Get(d, f))})

\* sum(1 for field in optional_fields if result.get(field))
filled_fields(d) ==
    Cardinality({i \in 1..Len(optional_fields) : Truthy(Get(d, optional_fields[i]))})

\* the score recomputed whatever the record holds
ConfidenceAlways(d) ==
    Put(d, "confidence_score", Float(Round2(filled_fields(d) * 2000)))

\* FALLBACK: calculate confidence_score if missing or 0.0
ConfidenceFallback(d) ==
    IF "confidence_score" \notin DOMAIN d \/ d["confidence_score"] = Float(0)
    THEN Put(d, "confidence_score", Float(Round2(filled_fields(d) * 2000)))
    ELSE d

\* The local `result` of extract when line 478 tests it.
ExtractedOf(agent) ==
    IF agent.kind = "raise" THEN agent
    ELSE LastMessageResult(agent.value, StructuredResult(agent.value))

\* "Failed to extract metadata"
FailedToExtract ==
    <<"F","a","i","l","e","d"," ","t","o"," ","e","x","t","r","a","c","t"," ","m","e","t","a","d","a","t","a">>

\* What extract gives its caller: a returned mapping, or an escaping exception.
ExtractOutcome(agent) ==
    LET e == ExtractedOf(agent)
    IN  IF e.kind = "raise" THEN e
        ELSE IF ~Truthy(e.value)
        THEN Returned(Dict([k \in {"error"} |-> Str(FailedToExtract)]))
        ELSE Returned(Dict(ConfidenceFallback(e.value.d)))

(* ------------------------------------------------------------------ *)
(* schema_validator_tool                                              *)
(* ------------------------------------------------------------------ *)

UpperCase ==
    <<"A","B","C","D","E","F","G","H","I","J","K","L","M",
      "N","O","P","Q","R","S","T","U","V","W","X","Y","Z">>

LowerCase ==
    <<"a","b","c","d","e","f","g","h","i","j","k","l","m",
      "n","o","p","q","r","s","t","u","v","w","x","y","z">>

\* the text as it is, letter case kept
lower_kept(s) == s

\* str.lower()
lower(s) ==
    [i \in 1..Len(s) |->
        IF \E j \in 1..Len(UpperCase) : UpperCase[j] = s[i]
        THEN LowerCase[CHOOSE j \in 1..Len(UpperCase) : UpperCase[j] = s[i]]
        ELSE s[i]]

\* `sub in s` on two strs
Contains(sub, s) ==
    \E i \in 0..(Len(s) - Len(sub)) : SubSeq(s, i + 1, i + Len(sub)) = sub

hallucination_phrases ==
    << <<"n","o","t"," ","v","i","s","i","b","l","e">>,
       <<"c","a","n","n","o","t"," ","d","e","t","e","r","m","i","n","e">>,
       <<"u","n","c","l","e","a","r">>,
       <<"n","o","t"," ","s","p","e","c","i","f","i","e","d">>,
       <<"u","n","k","n","o","w","n">>,
       <<"n","/","a">> >>

\* The text handed to the tool: what json.loads makes of it.
Malformed == [json |-> "malformed"]

Json(v) == [json |-> "value", value |-> v]

\* The lines of a result.
MissingRequired(field) == [text |-> "Missing required field", field |-> field]

TitleTooShort == [text |-> "Title too short (minimum 3 characters)"]

Uncertain(field, value) ==
    [text |-> "may contain uncertain data", field |-> field, value |-> value]

Outcome(head, lines) == [head |-> head, lines |-> lines]

\* len(v) is defined on str, list and dict; on None and float it raises TypeError.
HasLen(v) == v.py \in {"str", "list", "dict"}

PyLen(v) ==
    CASE v.py = "str" -> Len(v.s)
      [] v.py = "list" -> Len(v.l)
      [] OTHER -> Cardinality(DOMAIN v.d)

\* for field in required: if field not in data or not data[field]
RequiredErrors(data) ==
    IF "title" \notin DOMAIN data \/ ~Truthy(data["title"])
    THEN <<MissingRequired("title")>>
    ELSE <<>>

\* the length test off by one
LengthErrorsUpTo3(data) ==
    IF "title" \in DOMAIN data /\ PyLen(data["title"]) <= 3
    THEN <<TitleTooShort>>
    ELSE <<>>

\* if "title" in data and len(data["title"]) < 3
LengthErrors(data) ==
    IF "title" \in DOMAIN data /\ PyLen(data["title"]) < 3
    THEN <<TitleTooShort>>
    ELSE <<>>

\* The order in which data.items() gives the keys of the record.
ItemOrder ==
    <<"title", "brand", "category", "color", "material", "dimensions",
      "description", "confidence_score">>

\* for phrase in hallucination_phrases: if phrase in value_lower
RECURSIVE PhraseWarnings(_, _, _)
PhraseWarnings(field, value, i) ==
    IF i > Len(hallucination_phrases) THEN <<>>
    ELSE (IF Contains(hallucination_phrases[i], lower(value.s))
          THEN <<Uncertain(field, value)>> ELSE <<>>)
         \o PhraseWarnings(field, value, i + 1)

\* for field, value in data.items(): if isinstance(value, str)
RECURSIVE ItemWarnings(_, _)
ItemWarnings(data, i) ==
    IF i > Len(ItemOrder) THEN <<>>
    ELSE (IF ItemOrder[i] \in DOMAIN data /\ IsStr(data[ItemOrder[i]])
          THEN PhraseWarnings(ItemOrder[i], data[ItemOrder[i]], 1) ELSE <<>>)
         \o ItemWarnings(data, i + 1)

\* Compile results, with the warnings listed after the errors of a failure
CompileAll(errors, warnings) ==
    IF Len(errors) > 0 THEN Outcome("Validation FAILED", errors \o warnings)
    ELSE IF Len(warnings) > 0 THEN Outcome("Validation PASSED with warnings", warnings)
    ELSE Outcome("Validation PASSED", <<>>)

\* Compile results
Compile(errors, warnings) ==
    IF Len(errors) > 0 THEN Outcome("Validation FAILED", errors)
    ELSE IF Len(warnings) > 0 THEN Outcome("Validation PASSED with warnings", warnings)
    ELSE Outcome("Validation PASSED", <<>>)

TitleKey == <<"t","i","t","l","e">>

\* Lines 212-232 on a value that is no dict: `field not in data` raises on
\* None and on a number; data["title"] raises on a list or str that holds
\* "title"; data.items() raises on the others.
NonDictError(v) ==
    CASE v.py = "list" ->
            IF \E i \in 1..Len(v.l) : v.l[i] = Str(TitleKey)
            THEN "TypeError" ELSE "AttributeError"
      [] v.py = "str" ->
            IF Contains(TitleKey, v.s) THEN "TypeError" ELSE "AttributeError"
      [] OTHER -> "TypeError"

\* The body of the try block: the compiled result, or the exception raised.
ValidatorBody(doc) ==
    IF doc = Malformed THEN Raised("JSONDecodeError")
    ELSE IF ~IsDict(doc.value) THEN Raised(NonDictError(doc.value))
    ELSE LET data == doc.value.d
         IN  IF "title" \in DOMAIN data /\ ~HasLen(data["title"])
             THEN Raised("TypeError")
             ELSE Compile(RequiredErrors(data) \o LengthErrors(data),
                          ItemWarnings(data, 1))

\* the tool with `except json.JSONDecodeError` alone
schema_validator_json_handler_only(doc) ==
    LET r == ValidatorBody(doc)
    IN  IF "exc" \in DOMAIN r /\ r.exc = "JSONDecodeError"
        THEN Outcome("Invalid JSON", <<>>)
        ELSE r

\* except json.JSONDecodeError: "Invalid JSON"; except Exception:
\* "Validation error"
schema_validator_tool(doc) ==
    LET r == ValidatorBody(doc)
    IN  IF "exc" \notin DOMAIN r THEN r
        ELSE IF r.exc = "JSONDecodeError" THEN Outcome("Invalid JSON", <<>>)
        ELSE Outcome("Validation error", <<>>)

(* ------------------------------------------------------------------ *)
(* cleaner_tool                                                       *)
(* ------------------------------------------------------------------ *)

\* the characters \s matches and str.strip() removes
Whitespace == {" ", "\t", "\n"}

\* the characters \w matches
WordChars ==
    {UpperCase[j] : j \in 1..Len(UpperCase)} \cup {LowerCase[j] : j \in 1..Len(LowerCase)}
        \cup {"0","1","2","3","4","5","6","7","8","9","_"}

\* str.strip()
strip(s) ==
    LET inked == {i \in 1..Len(s) : s[i] \notin Whitespace}
    IN  IF inked = {} THEN <<>>
        ELSE SubSeq(s, CHOOSE i \in inked : \A j \in inked : i <= j,
                       CHOOSE i \in inked : \A j \in inked : j <= i)

\* the letters compared as they are written
re_exact(s) == s

\* flags=re.IGNORECASE, for a pattern written in lower case
re_IGNORECASE(s) == lower(s)

\* the word is found at position i, wherever it stands
MatchInside(word, s, i) ==
    /\ i + Len(word) - 1 <= Len(s)
    /\ re_IGNORECASE(SubSeq(s, i, i + Len(word) - 1)) = word

\* the pattern \bword\b matches at position i of s
MatchAt(word, s, i) ==
    /\ i + Len(word) - 1 <= Len(s)
    /\ re_IGNORECASE(SubSeq(s, i, i + Len(word) - 1)) = word
    /\ (i = 1 \/ s[i - 1] \notin WordChars)
    /\ (i + Len(word) > Len(s) \/ s[i + Len(word)] \notin WordChars)

RECURSIVE SubFrom(_, _, _, _)
SubFrom(word, replacement, s, i) ==
    IF i > Len(s) THEN <<>>
    ELSE IF MatchAt(word, s, i)
         THEN replacement \o SubFrom(word, replacement, s, i + Len(word))
         ELSE <<s[i]>> \o SubFrom(word, replacement, s, i + 1)

\* re.sub(r'\bword\b', replacement, s, flags=re.IGNORECASE)
re_sub(word, replacement, s) == SubFrom(word, replacement, s, 1)

\* the mappings, in the order the dicts are written: <<pattern word, replacement>>
Mapping(pattern, replacement) == <<pattern, replacement>>

color_mappings ==
    << Mapping(<<"b","l","k">>,
               <<"b","l","a","c","k">>),
       Mapping(<<"w","h","t">>,
               <<"w","h","i","t","e">>),
       Mapping(<<"r","e","d">>,
               <<"r","e","d">>),
       Mapping(<<"b","l","u">>,
               <<"b","l","u","e">>),
       Mapping(<<"g","r","n">>,
               <<"g","r","e","e","n">>) >>

material_mappings ==
    << Mapping(<<"c","o","t","t","o","n">>,
               <<"C","o","t","t","o","n">>),
       Mapping(<<"p","o","l","y","e","s","t","e","r">>,
               <<"P","o","l","y","e","s","t","e","r">>),
       Mapping(<<"w","o","o","l">>,
               <<"W","o","o","l">>),
       Mapping(<<"s","i","l","k">>,
               <<"S","i","l","k">>),
       Mapping(<<"l","e","a","t","h","e","r">>,
               <<"L","e","a","t","h","e","r">>) >>

dimensions_mappings ==
    << Mapping(<<"i","n","c","h","e","s">>,
               <<"i","n">>),
       Mapping(<<"c","e","n","t","i","m","e","t","e","r","s">>,
               <<"c","m">>),
       Mapping(<<"m","i","l","l","i","m","e","t","e","r","s">>,
               <<"m","m">>) >>

\* for pattern, replacement in mappings.items(): cleaned = re.sub(...)
RECURSIVE ApplyMappings(_, _, _)
ApplyMappings(mappings, s, k) ==
    IF k > Len(mappings) THEN s
    ELSE ApplyMappings(mappings, re_sub(mappings[k][1], mappings[k][2], s), k + 1)

\* the end of the run of whitespace that starts at position i
RunEnd(s, i) ==
    CHOOSE j \in i..Len(s) :
        /\ \A k \in i..j : s[k] \in Whitespace
        /\ (j = Len(s) \/ s[j + 1] \notin Whitespace)

\* whitespace replaced two characters at a time
RECURSIVE WhitespaceSubPairs(_, _)
WhitespaceSubPairs(s, i) ==
    IF i > Len(s) THEN <<>>
    ELSE IF s[i] \in Whitespace
         THEN <<" ">> \o WhitespaceSubPairs(s, IF RunEnd(s, i) > i THEN i + 2 ELSE i + 1)
         ELSE <<s[i]>> \o WhitespaceSubPairs(s, i + 1)

\* re.sub(r'\s+', ' ', s), from position i on
RECURSIVE WhitespaceSub(_, _)
WhitespaceSub(s, i) ==
    IF i > Len(s) THEN <<>>
    ELSE IF s[i] \in Whitespace
         THEN <<" ">> \o WhitespaceSub(s, RunEnd(s, i) + 1)
         ELSE <<s[i]>> \o WhitespaceSub(s, i + 1)

cleaner_tool(name, value) ==
    IF ~Truthy(value) THEN value
    ELSE LET stripped == strip(value.s)
             mapped ==
                 IF lower(name) = <<"c","o","l","o","r">>
                 THEN ApplyMappings(color_mappings, stripped, 1)
                 ELSE IF lower(name) = <<"m","a","t","e","r","i","a","l">>
                      THEN ApplyMappings(material_mappings, stripped, 1)
                 ELSE IF lower(name) = <<"d","i","m","e","n","s","i","o","n","s">>
                      THEN ApplyMappings(dimensions_mappings, stripped, 1)
                 ELSE stripped
         IN  Str(strip(WhitespaceSub(mapped, 1)))

(* ------------------------------------------------------------------ *)
(* html_scraper_tool                                                  *)
(* ------------------------------------------------------------------ *)

\* A long str is kept as its runs: <<Run("a", 4999), Run(" ", 1)>> is 4999
\* times "a" and one space.  Two neighbouring runs never hold the same
\* character.
Run(c, n) == [c |-> c, n |-> n]

\* len(text)
RECURSIVE RunsLen(_)
RunsLen(text) == IF text = <<>> THEN 0 ELSE Head(text).n + RunsLen(Tail(text))

\* text[:n]
RECURSIVE Slice(_, _)
Slice(text, n) ==
    IF text = <<>> \/ n = 0 THEN <<>>
    ELSE IF Head(text).n <= n THEN <<Head(text)>> \o Slice(Tail(text), n - Head(text).n)
    ELSE <<Run(Head(text).c, n)>>

\* what the closing result.strip() leaves of the text that ends the block
RECURSIVE StripEnd(_)
StripEnd(text) ==
    IF text = <<>> THEN <<>>
    ELSE IF text[Len(text)].c \in Whitespace THEN StripEnd(SubSeq(text, 1, Len(text) - 1))
    ELSE text

\* text[:5000] if len(text) > 5000 else text
TextLimit == 5000

Limited(text) == IF RunsLen(text) > TextLimit THEN Slice(text, TextLimit) ELSE text

\* response.raise_for_status(): an HTTPError for a 4xx or 5xx status
raise_for_status(status) == status >= 400 /\ status < 600

\* the except clause that lets a failure of the named kind out of the tool
NoHandler(failure) == Raised(failure)

\* except Exception as e: return f"Error scraping URL: {str(e)}"
ScraperHandler(failure) == [kind |-> "return", error |-> "Error scraping URL", e |-> failure]

\* The tool on what the fetch of the URL gives: fetched.get is the failure
\* of requests.get or "ok", fetched.status the status of the response,
\* fetched.parse the failure of the parser or "ok". The f-string is kept as its four
\* values; result.strip() reaches the end of the text only.
html_scraper_tool(u, fetched) ==
    IF fetched.get # "ok" THEN ScraperHandler(fetched.get)
    ELSE IF raise_for_status(fetched.status) THEN ScraperHandler("HTTPError")
    ELSE IF fetched.parse # "ok" THEN ScraperHandler(fetched.parse)
    ELSE [kind |-> "return",
          url |-> u,
          title |-> fetched.title,
          meta_description |-> fetched.meta_description,
          content |-> StripEnd(Limited(fetched.text))]

(* ------------------------------------------------------------------ *)
(* vision_extractor_tool                                              *)
(* ------------------------------------------------------------------ *)

\* except Exception as e: return f"Error in vision extraction: {str(e)}"
VisionHandler(failure, initialised, invoked) ==
    [kind |-> "return", error |-> "Error in vision extraction", e |-> failure,
     initialised |-> initialised, invoked |-> invoked]

\* no test of the input type
AnyInput(state) == FALSE

\* state.get("input_type") != "image"
NotImage(state) == Get(state, "input_type") # Str(<<"i","m","a","g","e">>)

\* The tool on the state of the run and on what the vision model does:
\* llm.init is the failure of init_chat_model or "ok", llm.invoke the failure
\* of vision_model.invoke or "ok", llm.content the content of its response.
\* The result says which of the two calls were made.
vision_extractor_tool(state, llm) ==
    IF NotImage(state)
    THEN [kind |-> "return", error |-> "Error: Vision tool requires image input",
          initialised |-> FALSE, invoked |-> FALSE]
    ELSE IF llm.init # "ok" THEN VisionHandler(llm.init, TRUE, FALSE)
    ELSE IF llm.invoke # "ok" THEN VisionHandler(llm.invoke, TRUE, TRUE)
    ELSE [kind |-> "return", content |-> llm.content, initialised |-> TRUE, invoked |-> TRUE]

(* ------------------------------------------------------------------ *)
(* Entry points: the pages, test_agent.main, extract_metadata          *)
(* ------------------------------------------------------------------ *)

\* What one run of an entry point did: the messages it showed, whether it
\* called extract_metadata, whether the agent was invoked, and the exception
\* that left it, if any.
Ran(shown, extraction, invoked, exc) ==
    [shown |-> shown, extraction |-> extraction, invoked |-> invoked, exc |-> exc]

\* init_chat_model in MetadataExtractionAgent.__init__: the provider takes
\* the key from GOOGLE_API_KEY; without it, it succeeds only where the
\* environment holds other credentials.
init_chat_model(api_key, other_credentials) ==
    IF Truthy(api_key) \/ other_credentials THEN "ok" ELSE "DefaultCredentialsError"

\* extract_metadata: a new agent, then agent.extract
extract_metadata(api_key, other_credentials) ==
    IF init_chat_model(api_key, other_credentials) # "ok"
    THEN Ran({}, TRUE, FALSE, init_chat_model(api_key, other_credentials))
    ELSE Ran({}, TRUE, TRUE, "none")

\* ui_utils.render_sidebar
render_sidebar(api_key) ==
    IF Truthy(api_key) THEN {"API Key Loaded"} ELSE {"API Key Missing"}

\* The button handlers of the three pages. warnings is what the page shows
\* for an empty input: one message on the URL and text pages, none on the
\* image page, whose button acts only with an image.
ButtonHandler(api_key, payload, other_credentials, warnings) ==
    IF ~payload THEN Ran(render_sidebar(api_key) \cup warnings, FALSE, FALSE, "none")
    ELSE IF ~Truthy(api_key)
    THEN Ran(render_sidebar(api_key) \cup {"Please configure API Key first."},
             FALSE, FALSE, "none")
    ELSE LET r == extract_metadata(api_key, other_credentials)
         IN  Ran(render_sidebar(api_key) \cup r.shown
                     \cup (IF r.exc # "none" THEN {"An error occurred"} ELSE {}),
                 TRUE, r.invoked, "none")

\* test_agent.main
test_main(api_key, other_credentials) ==
    IF ~Truthy(api_key)
    THEN Ran({"WARNING: GOOGLE_API_KEY not found in environment"}, FALSE, FALSE, "none")
    ELSE LET r == extract_metadata(api_key, other_credentials)
         IN  Ran(r.shown \cup (IF r.exc # "none" THEN {"Image extraction failed"} ELSE {}),
                 TRUE, r.invoked, "none")

EntryPoint(point, api_key, payload, other_credentials) ==
    CASE point = "url page" ->
            ButtonHandler(api_key, payload, other_credentials, {"Please enter a URL"})
      [] point = "text page" ->
            ButtonHandler(api_key, payload, other_credentials, {"Please enter some text"})
      [] point = "image page" ->
            ButtonHandler(api_key, payload, other_credentials, {})
      [] point = "test_agent" -> test_main(api_key, other_credentials)
      [] point = "extract_metadata" -> extract_metadata(api_key, other_credentials)

(* ------------------------------------------------------------------ *)
(* Agents, thread ids and the InMemorySaver of each agent              *)
(* ------------------------------------------------------------------ *)

\* A message of a transcript, marked with the call of extract it came from.
MessageOf(call, role) == [call |-> call, role |-> role]

\* one saver for all threads of an agent
SaverSlotPerAgent(agent, thread_id) == <<agent, "default">>

\* Where the state of a run is kept: each agent has its own InMemorySaver,
\* which keeps one state for each thread_id of config["configurable"].
SaverSlot(agent, thread_id) == <<agent, thread_id>>

\* the state of a new run on the slot: what the saver holds for it, with
\* the user message of this call added
LoadedState(saved, call) == Append(saved, MessageOf(call, "user"))

\* the calls whose messages a transcript holds
CallsIn(messages) == {messages[i].call : i \in 1..Len(messages)}

(* ------------------------------------------------------------------ *)
(* The URL Scraping page                                              *)
(* ------------------------------------------------------------------ *)

\* st.session_state of a new session: no key
EmptySessionState == [k \in {} |-> None]

\* Lines 16 and 45-46: url_input is the content of the text box, replaced by
\* session_state['selected_url'] whenever that key holds a non-empty URL.
UrlInput(box, state) ==
    IF "selected_url" \in DOMAIN state /\ Truthy(state["selected_url"])
    THEN state["selected_url"]
    ELSE box

\* the Scrape URL button handler on url_input
ScrapeHandler(url_value, api_key) ==
    IF ~Truthy(url_value) THEN [shown |-> "Please enter a URL"]
    ELSE IF ~Truthy(api_key) THEN [shown |-> "Please configure API Key first."]
    ELSE [shown |-> "results", input_data |-> url_value, input_type |-> Str(<<"u","r","l">>)]

(* ------------------------------------------------------------------ *)
(* Inputs                                                             *)
(* ------------------------------------------------------------------ *)

\* The longest agent transcript, and the longest title spelled out letter by
\* letter, that the inputs hold.
MaxMessages == 2

MaxTitleLen == 3

Shoe == <<"S","h","o","e">>

Boot == <<"B","o","o","t">>

Sock == <<"S","o","c","k">>

Nike == <<"N","i","k","e">>

Blurb == <<"A"," ","s","h","o","e">>

\* Marks a key that a mapping under construction does not hold.
Absent == [py |-> "absent"]

Keep(f) == [k \in {x \in DOMAIN f : f[x] # Absent} |-> f[k]]

\* A record with the optional fields of `filled` set, the others `empty`.
Fields(title, filled, empty, description, score) ==
    [k \in ProductMetadataFields |->
        CASE k = "title" -> title
          [] k = "description" -> description
          [] k = "confidence_score" -> score
          [] OTHER -> IF k \in filled THEN Str(Nike) ELSE empty]

OptionalSet == {optional_fields[i] : i \in 1..Len(optional_fields)}

\* Scores a model can report: 0.0, in range, below and above the range.
Scores == {Float(0), Float(40), Float(100), Float(-10), Float(150)}

\* ProductMetadata instances (the structured output is type-checked: title
\* is a str, confidence_score a float).
Instances ==
    {Dataclass(Fields(t, fs, e, d, c)) :
        t \in {Str(<<>>), Str(Shoe)}, fs \in SUBSET OptionalSet,
        e \in {None, Str(<<>>)}, d \in {None, Str(Blurb)}, c \in Scores}

\* Loosely typed mappings: any key may be missing or null.
Mappings ==
    {Dict(Keep(Fields(t, fs, e, d, c))) :
        t \in {Absent, None, Str(<<>>), Str(Boot)}, fs \in SUBSET OptionalSet,
        e \in {Absent, None, Str(<<>>)}, d \in {Absent, Str(Blurb)},
        c \in (Scores \ {Float(100)}) \cup {Absent, None}}

SampleInstance ==
    Dataclass(Fields(Str(Shoe), {"brand"}, None, Str(Blurb), Float(20)))

SampleOutput ==
    Dict(Keep(Fields(Str(Boot), {"brand", "color"}, Absent, Absent, Absent)))

SampleJson ==
    Dict(Keep(Fields(Str(Sock), {"material"}, Absent, Absent, Float(0))))

EmptyDict == Dict(Keep([k \in {"title"} |-> Absent]))

\* Final messages: plain prose, prose around a JSON object, an unparseable
\* span before a JSON object, an empty object, an empty text, a content that
\* is a list of blocks, and a message without content.
SampleMessages ==
    { Message(Text(<<Prose(Blurb)>>)),
      Message(Text(<<Prose(Blurb), Braces(SampleJson), Prose(Blurb)>>)),
      Message(Text(<<Braces(JSONDecodeError), Braces(SampleJson)>>)),
      Message(Text(<<Braces(EmptyDict)>>)),
      Message(Text(<<>>)),
      Message(List(<<Str(Blurb)>>)),
      BareMessage }

RECURSIVE SeqsUpTo(_, _)
SeqsUpTo(S, n) ==
    IF n = 0 THEN {<<>>}
    ELSE LET shorter == SeqsUpTo(S, n - 1)
         IN  shorter \cup {Append(q, x) : q \in shorter, x \in S}

Transcripts == SeqsUpTo(SampleMessages, MaxMessages)

ProseOnly == List(<<Message(Text(<<Prose(Blurb)>>))>>)

State(sr, out, msgs) ==
    Keep([k \in {"structured_response", "output", "messages"} |->
            CASE k = "structured_response" -> sr
              [] k = "output" -> out
              [] OTHER -> msgs])

\* Records in which the model says in words that it could not determine a
\* field: as a ProductMetadata instance with score 0.0 and as a mapping
\* without score.
UncertainRecords ==
    {Dataclass([Fields(Str(Shoe), {"category"}, None, Str(Blurb), Float(0))
                   EXCEPT !["brand"] = Str(<<"N","/","A">>),
                          !["color"] = Str(<<"N","o","t"," ","v","i","s","i","b","l","e"," ","i","n"," ","i","m","a","g","e">>)]),
     Dict(Keep([Fields(Str(Boot), {"category", "material"}, Absent, Absent, Absent)
                   EXCEPT !["brand"] = Str(<<"u","n","k","n","o","w","n">>)]))}

\* The states agent.invoke can return: every combination of a few values of
\* the three keys, and every record in each of the three places.
Responses ==
    {State(sr, out, msgs) :
        sr \in {Absent, None, EmptyDict, SampleInstance},
        out \in {Absent, None, SampleOutput, Str(Blurb)},
        msgs \in {List(t) : t \in Transcripts} \cup {Absent}}
    \cup {State(sr, Absent, ProseOnly) : sr \in Instances}
    \cup {State(Absent, out, ProseOnly) : out \in Mappings}
    \cup {State(Absent, Absent, List(<<Message(Text(<<Prose(Blurb), Braces(m)>>))>>)) :
            m \in Mappings}
    \cup {State(sr, Absent, ProseOnly) : sr \in UncertainRecords}

AgentOutcomes == {Raised("Exception")} \cup {Returned(r) : r \in Responses}

TitleLetters == {"a", " "}

\* Candidate records handed to the validator.
Titles ==
    {Absent, None}
    \cup {Str(t) : t \in SeqsUpTo(TitleLetters, MaxTitleLen)}
    \cup {Str(Shoe), Str(<<"N","/","A">>), Str(<<"U","n","k","n","o","w","n"," ","s","h","o","e">>), Str(<<"N","o","t"," ","V","i","s","i","b","l","e">>)}

Others ==
    {Absent, None, Str(<<>>), Str(Nike), Str(<<"N","O","T"," ","V","I","S","I","B","L","E"," ","i","n"," ","i","m","a","g","e">>), Str(<<"u","n","k","n","o","w","n",","," ","n","/","a">>)}

Candidates ==
    {Dict(Keep([k \in {"title", "brand", "color", "confidence_score"} |->
                  CASE k = "title" -> t
                    [] k = "brand" -> b
                    [] k = "color" -> c
                    [] OTHER -> s])) :
        t \in Titles, b \in Others, c \in Others, s \in {Absent, Float(40)}}

MetadataJsonInputs ==
    {Malformed, Json(None), Json(Float(40)), Json(Str(Shoe)), Json(Str(TitleKey)),
     Json(List(<<Str(Shoe)>>)), Json(List(<<Str(TitleKey)>>)), Json(List(<<>>))}
    \cup {Json(c) : c \in Candidates}

\* The most tool calls of one run that the model follows.
MaxToolCalls == 3

\* Candidates the agent hands to the validator during a run: a good record,
\* one without title, one with an uncertain brand, and text that is no JSON.
RunCandidates ==
    { Json(Dict(Keep(Fields(Str(Shoe), {"brand"}, Absent, Absent, Absent)))),
      Json(Dict(Keep(Fields(Absent, {"brand"}, Absent, Absent, Absent)))),
      Json(Dict(Keep(Fields(Str(Shoe), {}, Str(<<"n","/","a">>), Absent, Absent)))),
      Malformed }

\* What the agent ends with: a structured response, a plain final message,
\* no usable output at all, or an exception.
RunOutcomes ==
    { Returned(State(SampleInstance, Absent, ProseOnly)),
      Returned(State(Absent, Absent, ProseOnly)),
      Returned(State(None, Absent, Absent)),
      Raised("Exception") }

\* The most pieces a value given to cleaner_tool is put together from.
MaxPieces == 3

RECURSIVE Flatten(_)
Flatten(q) == IF q = <<>> THEN <<>> ELSE Head(q) \o Flatten(Tail(q))

\* the strs put together from at most MaxPieces of the pieces
Values(pieces) == {Str(Flatten(q)) : q \in SeqsUpTo(pieces, MaxPieces)}

ColorNames == { <<"c","o","l","o","r">>,
                <<"C","o","l","o","r">>,
                <<"C","O","L","O","R">> }

ColorPieces ==
    { <<"b","l","k">>,
      <<"W","h","t">>,
      <<"R","E","D">>,
      <<"s">>,
      <<"_">>,
      <<",">>,
      <<" ">>,
      <<"\t"," ","\n">> }

ColorSamples ==
    { <<"b","l","k"," ","t","o","p",","," ","w","h","t"," ","s","o","l","e">>,
      <<"B","L","U"," ","a","n","d"," ","g","r","n">>,
      <<" "," ","D","a","r","k"," "," ","R","e","d"," ","\t"," ","s","h","o","e"," ">>,
      <<"b","l","k"," ","b","l","k","s"," ","R","E","D">> }

MaterialNames == { <<"m","a","t","e","r","i","a","l">>,
                   <<"M","A","T","E","R","I","A","L">> }

MaterialPieces ==
    { <<"c","o","t","t","o","n">>,
      <<"W","O","O","L">>,
      <<"S","i","l","k">>,
      <<"s">>,
      <<"-">>,
      <<" ">> }

MaterialSamples ==
    { <<"p","o","l","y","e","s","t","e","r"," ","/"," ","L","E","A","T","H","E","R">> }

DimensionsNames == { <<"d","i","m","e","n","s","i","o","n","s">>,
                     <<"D","i","m","e","n","s","i","o","n","s">> }

DimensionsPieces ==
    { <<"1","0">>,
      <<"i","n","c","h","e","s">>,
      <<"C","e","n","t","i","m","e","t","e","r","s">>,
      <<"M","I","L","L","I","M","E","T","E","R","S">>,
      <<"s">>,
      <<" ">>,
      <<" "," ">> }

DimensionsSamples ==
    { <<"1","0"," ","i","n","c","h","e","s"," ","b","y"," ","5"," ","c","e","n","t","i","m","e","t","e","r","s">>,
      <<"1","0","i","n","c","h","e","s"," ","x"," ","5"," ","C","e","n","t","i","m","e","t","e","r","s">> }

OtherNames == { <<"t","i","t","l","e">>,
                <<"c","o","l","o","r","s">> }

OtherSamples ==
    { <<" ","S","h","o","e"," ">>,
      <<"b","l","k"," "," ","t","o","p">>,
      <<"1","0"," ","i","n","c","h","e","s">> }

\* the arguments of cleaner_tool: a field name and a str or None
CleanerInputs ==
    {<<n, v>> : n \in ColorNames,
                v \in Values(ColorPieces) \cup {Str(w) : w \in ColorSamples} \cup {None}}
    \cup {<<n, v>> : n \in MaterialNames,
                v \in Values(MaterialPieces) \cup {Str(w) : w \in MaterialSamples} \cup {None}}
    \cup {<<n, v>> : n \in DimensionsNames,
                v \in Values(DimensionsPieces) \cup {Str(w) : w \in DimensionsSamples}
                       \cup {None}}
    \cup {<<n, v>> : n \in OtherNames, v \in {Str(w) : w \in OtherSamples} \cup {None, Str(<<>>)}}

\* The most runs the visible text of a page is put together from.
MaxRuns == 3

\* The lengths of the runs: short ones, and ones that reach the limit of the
\* text with the runs before them.
RunLengths == {1, 2, 4998, 4999, 5001}

\* soup.get_text(separator=" ", strip=True): words and the whitespace between
\* them, never whitespace at either end
VisibleTexts ==
    {<<>>} \cup
    { [i \in 1..Len(q) |-> Run(IF i % 2 = 1 THEN "a" ELSE " ", q[i])] :
        q \in {r \in SeqsUpTo(RunLengths, MaxRuns) : Len(r) % 2 = 1} }

Urls == {Str(<<"h","t","t","p",":","/","/","a",".","b","/","c">>)}

\* What requests.get and the parser give for the URL.
Page(get, status, parse, title, meta_description, text) ==
    [get |-> get, status |-> status, parse |-> parse, title |-> title,
     meta_description |-> meta_description, text |-> text]

Pages ==
    {Page("ok", status, "ok", title, meta, text) :
        status \in {200, 304}, title \in {Str(<<>>), Str(Shoe)},
        meta \in {Str(<<>>), Str(Blurb)}, text \in VisibleTexts}
    \cup {Page(get, 200, "ok", Str(<<>>), Str(<<>>), <<>>) :
            get \in {"ConnectionError", "Timeout", "MissingSchema"}}
    \cup {Page("ok", status, "ok", Str(<<>>), Str(<<>>), <<Run("a", 2)>>) :
            status \in {204, 300, 403, 404, 500, 503}}
    \cup {Page("ok", 200, "ParserError", Str(<<>>), Str(<<>>), <<>>)}

\* runtime.state as the tool reads it: input_type and input_data, or a state
\* that holds no input_type
VisionStates ==
    {[input_type |-> Str(t), input_data |-> Str(Blurb)] :
        t \in {<<"i","m","a","g","e">>, <<"u","r","l">>, <<"t","e","x","t">>, <<"I","m","a","g","e">>}}
    \cup {[input_data |-> Str(Blurb)]}

\* what init_chat_model and vision_model.invoke do in one call of the tool
VisionModels ==
    {[init |-> "DefaultCredentialsError", invoke |-> "ok", content |-> Str(Blurb)]}
    \cup {[init |-> "ok", invoke |-> f, content |-> Str(Blurb)] :
            f \in {"ResourceExhausted", "Timeout"}}
    \cup {[init |-> "ok", invoke |-> "ok", content |-> c] :
            c \in {Str(Blurb), Str(<<"N","o","t"," ","v","i","s","i","b","l","e"," ","i","n"," ","i","m","a","g","e">>)}}

\* The arguments of extract: input_data and input_type. The type is one of
\* the three the signature names or another str; the data may be empty.
ExtractInputs ==
    { <<Str(<<"h","t","t","p",":","/","/","a",".","b","/","c">>), Str(<<"u","r","l">>)>>,
      <<Str(<<>>), Str(<<"u","r","l">>)>>,
      <<Str(Blurb), Str(<<"t","e","x","t">>)>>,
      <<Str(<<>>), Str(<<"t","e","x","t">>)>>,
      <<Str(<<>>), Str(<<"i","m","a","g","e">>)>>,
      <<None, Str(<<"i","m","a","g","e">>)>>,
      <<Str(Blurb), Str(<<"p","d","f">>)>> }

EntryPoints == {"url page", "text page", "image page", "test_agent", "extract_metadata"}

\* os.getenv("GOOGLE_API_KEY"): None when the variable is absent
ApiKeys == {None, Str(<<>>), Str(<<"k","e","y">>)}

\* The most agents constructed and the most calls of extract followed.
MaxAgents == 2

MaxCalls == 3

Agents == 1..MaxAgents

\* thread_id: the default of extract, and one passed by the caller
ThreadIds == {"default", "other"}

\* two of the sample URLs of the page, and what a user types into the box
SampleUrls == {Str(<<"h","t","t","p","s",":","/","/","w","w","w",".","a","p","p","l","e",".","c","o","m","/","x">>), Str(<<"h","t","t","p","s",":","/","/","w","w","w",".","d","x","l",".","c","o","m","/","p">>)}

TypedUrls == {Str(<<>>), Str(<<"h","t","t","p",":","/","/","a",".","b","/","c">>), Str(<<"h","t","t","p","s",":","/","/","w","w","w",".","a","p","p","l","e",".","c","o","m","/","x">>)}

(* ------------------------------------------------------------------ *)
(* Specification                                                      *)
(* ------------------------------------------------------------------ *)

Unset == [py |-> "unset"]

Init ==
    /\ pc = "idle"
    /\ response = Unset
    /\ extracted = Unset
    /\ result = Unset
    /\ metadata_json = Unset
    /\ validation = Unset
    /\ transcript = <<>>
    /\ field_name = <<>>
    /\ field_value = Unset
    /\ cleaned = Unset
    /\ url = Unset
    /\ page = Unset
    /\ scraped = Unset
    /\ runtime = Unset
    /\ vision = Unset
    /\ input_data = Unset
    /\ input_type = Unset
    /\ entry = Unset
    /\ ran = Unset
    /\ agents = <<>>
    /\ checkpoints = [slot \in Agents \X ThreadIds |-> <<>>]
    /\ calls = <<>>
    /\ text_box = Str(<<>>)
    /\ session_state = EmptySessionState
    /\ provided = Str(<<>>)
    /\ scrape = Unset

\* One call of MetadataExtractionAgent.extract: the agent runs, and its
\* response is turned into the returned mapping.
Extract ==
    /\ pc = "idle"
    /\ \E outcome \in AgentOutcomes :
        /\ response' = outcome
        /\ extracted' = ExtractedOf(outcome)
        /\ result' = ExtractOutcome(outcome)
    /\ pc' = "extracted"
    /\ UNCHANGED <<metadata_json, validation, transcript, field_name, field_value, cleaned,
                   url, page, scraped,
                   runtime, vision,
                   input_data, input_type,
                   entry, ran,
                   agents, checkpoints, calls,
                   text_box, session_state, provided, scrape>>

\* One call of schema_validator_tool.
SchemaValidator ==
    /\ pc = "idle"
    /\ \E doc \in MetadataJsonInputs :
        /\ metadata_json' = doc
        /\ validation' = schema_validator_tool(doc)
    /\ pc' = "validated"
    /\ UNCHANGED <<response, extracted, result, transcript, field_name, field_value, cleaned,
                   url, page, scraped,
                   runtime, vision,
                   input_data, input_type,
                   entry, ran,
                   agents, checkpoints, calls,
                   text_box, session_state, provided, scrape>>

\* The agent built by create_agent, step by step: extract passes its
\* arguments on to agent.invoke as they are; then the model either calls
\* one of self.tools, whose result joins the transcript, or gives its final
\* answer.
Invoke ==
    /\ pc = "idle"
    /\ \E input \in ExtractInputs :
        /\ input_data' = input[1]
        /\ input_type' = input[2]
    /\ pc' = "agent"
    /\ transcript' = <<>>
    /\ UNCHANGED <<response, extracted, result, metadata_json, validation,
                   field_name, field_value, cleaned,
                   url, page, scraped,
                   runtime, vision,
                   entry, ran,
                   agents, checkpoints, calls,
                   text_box, session_state, provided, scrape>>

ToolResult(tool, head) == [tool |-> tool, head |-> head]

CallValidator ==
    /\ pc = "agent"
    /\ Len(transcript) < MaxToolCalls
    /\ \E doc \in RunCandidates :
        transcript' = Append(transcript,
            ToolResult("schema_validator_tool", schema_validator_tool(doc).head))
    /\ UNCHANGED <<pc, response, extracted, result, metadata_json, validation,
                   field_name, field_value, cleaned,
                   url, page, scraped,
                   runtime, vision,
                   input_data, input_type,
                   entry, ran,
                   agents, checkpoints, calls,
                   text_box, session_state, provided, scrape>>

CallOtherTool ==
    /\ pc = "agent"
    /\ Len(transcript) < MaxToolCalls
    /\ \E tool \in {"html_scraper_tool", "vision_extractor_tool", "cleaner_tool"} :
        transcript' = Append(transcript, ToolResult(tool, "text"))
    /\ UNCHANGED <<pc, response, extracted, result, metadata_json, validation,
                   field_name, field_value, cleaned,
                   url, page, scraped,
                   runtime, vision,
                   input_data, input_type,
                   entry, ran,
                   agents, checkpoints, calls,
                   text_box, session_state, provided, scrape>>

\* The agent ends and extract turns its response into the returned mapping.
Finish ==
    /\ pc = "agent"
    /\ \E outcome \in RunOutcomes :
        /\ response' = outcome
        /\ extracted' = ExtractedOf(outcome)
        /\ result' = ExtractOutcome(outcome)
    /\ pc' = "returned"
    /\ UNCHANGED <<metadata_json, validation, transcript, field_name, field_value, cleaned,
                   url, page, scraped,
                   runtime, vision,
                   input_data, input_type,
                   entry, ran,
                   agents, checkpoints, calls,
                   text_box, session_state, provided, scrape>>

Cleaner ==
    /\ pc = "idle"
    /\ \E input \in CleanerInputs :
        /\ field_name' = input[1]
        /\ field_value' = input[2]
        /\ cleaned' = cleaner_tool(input[1], input[2])
    /\ pc' = "cleaned"
    /\ UNCHANGED <<response, extracted, result, metadata_json, validation, transcript,
                   url, page, scraped,
                   runtime, vision,
                   input_data, input_type,
                   entry, ran,
                   agents, checkpoints, calls,
                   text_box, session_state, provided, scrape>>

Scraper ==
    /\ pc = "idle"
    /\ \E u \in Urls, p \in Pages :
        /\ url' = u
        /\ page' = p
        /\ scraped' = html_scraper_tool(u, p)
    /\ pc' = "scraped"
    /\ UNCHANGED <<response, extracted, result, metadata_json, validation, transcript,
                   field_name, field_value, cleaned,
                   runtime, vision,
                   input_data, input_type,
                   entry, ran,
                   agents, checkpoints, calls,
                   text_box, session_state, provided, scrape>>

VisionExtractor ==
    /\ pc = "idle"
    /\ \E state \in VisionStates, llm \in VisionModels :
        /\ runtime' = [state |-> state, llm |-> llm]
        /\ vision' = vision_extractor_tool(state, llm)
    /\ pc' = "vision"
    /\ UNCHANGED <<response, extracted, result, metadata_json, validation, transcript,
                   field_name, field_value, cleaned, url, page, scraped,
                   input_data, input_type,
                   entry, ran,
                   agents, checkpoints, calls,
                   text_box, session_state, provided, scrape>>

\* One run of an entry point: a press of a page's button with or without a
\* payload, a run of test_agent.main, or a headless call of extract_metadata.
RunEntryPoint ==
    /\ pc = "idle"
    /\ \E point \in EntryPoints, api_key \in ApiKeys, payload \in BOOLEAN,
          other_credentials \in BOOLEAN :
        /\ entry' = [point |-> point, api_key |-> api_key, payload |-> payload,
                     other_credentials |-> other_credentials]
        /\ ran' = EntryPoint(point, api_key, payload, other_credentials)
    /\ pc' = "ran"
    /\ UNCHANGED <<response, extracted, result, metadata_json, validation, transcript,
                   field_name, field_value, cleaned, url, page, scraped, runtime, vision,
                   input_data, input_type,
                   agents, checkpoints, calls,
                   text_box, session_state, provided, scrape>>

Serving == pc \in {"idle", "serving"}

\* MetadataExtractionAgent(): a new agent with a new, empty InMemorySaver,
\* which its caller holds for later calls of extract
NewAgent ==
    /\ Serving
    /\ Len(agents) < MaxAgents
    /\ agents' = Append(agents, "held")
    /\ pc' = "serving"
    /\ UNCHANGED <<response, extracted, result, metadata_json, validation, transcript,
                   field_name, field_value, cleaned, url, page, scraped, runtime, vision,
                   input_data, input_type, entry, ran, checkpoints, calls,
                   text_box, session_state, provided, scrape>>

\* a run is under way on the slot
Busy(slot) ==
    \E n \in 1..Len(calls) :
        calls[n].stage = "running" /\ SaverSlot(calls[n].agent, calls[n].thread_id) = slot

\* agent.extract(..., thread_id) is entered: agent.invoke starts from the
\* state saved for the thread and adds the user message of this call
BeginRun(agent, thread_id) ==
    calls' = Append(calls,
        [agent |-> agent, thread_id |-> thread_id, stage |-> "running",
         messages |-> LoadedState(checkpoints[SaverSlot(agent, thread_id)], Len(calls) + 1)])

CallExtract ==
    /\ pc = "serving"
    /\ Len(calls) < MaxCalls
    /\ \E agent \in 1..Len(agents), thread_id \in ThreadIds :
        /\ agents[agent] = "held"
        /\ ~Busy(SaverSlot(agent, thread_id))
        /\ BeginRun(agent, thread_id)
    /\ UNCHANGED <<pc, response, extracted, result, metadata_json, validation, transcript,
                   field_name, field_value, cleaned, url, page, scraped, runtime, vision,
                   input_data, input_type, entry, ran, checkpoints, agents,
                   text_box, session_state, provided, scrape>>

\* extract_metadata: a new agent, local to the call, and extract on it with
\* the default thread_id
CallExtractMetadata ==
    /\ Serving
    /\ Len(calls) < MaxCalls
    /\ Len(agents) < MaxAgents
    /\ agents' = Append(agents, "local")
    /\ BeginRun(Len(agents) + 1, "default")
    /\ pc' = "serving"
    /\ UNCHANGED <<response, extracted, result, metadata_json, validation, transcript,
                   field_name, field_value, cleaned, url, page, scraped, runtime, vision,
                   input_data, input_type, entry, ran, checkpoints,
                   text_box, session_state, provided, scrape>>

\* The model answers in a run: its message joins the transcript of the run,
\* the state is saved for the thread, and the run ends.
ModelTurn ==
    /\ pc = "serving"
    /\ \E n \in 1..Len(calls) :
        /\ calls[n].stage = "running"
        /\ LET answered == Append(calls[n].messages, MessageOf(n, "ai"))
           IN  /\ calls' = [calls EXCEPT ![n].messages = answered, ![n].stage = "done"]
               /\ checkpoints' =
                    [checkpoints EXCEPT ![SaverSlot(calls[n].agent, calls[n].thread_id)] =
                        answered]
    /\ UNCHANGED <<pc, response, extracted, result, metadata_json, validation, transcript,
                   field_name, field_value, cleaned, url, page, scraped, runtime, vision,
                   input_data, input_type, entry, ran, agents,
                   text_box, session_state, provided, scrape>>

Browsing == pc \in {"idle", "browsing"}

\* The user edits the text box; the script runs again and shows no result.
EditUrl ==
    /\ Browsing
    /\ \E typed \in TypedUrls :
        /\ typed # text_box
        /\ text_box' = typed
        /\ provided' = typed
    /\ scrape' = Unset
    /\ pc' = "browsing"
    /\ UNCHANGED <<response, extracted, result, metadata_json, validation, transcript,
                   field_name, field_value, cleaned, url, page, scraped, runtime, vision,
                   input_data, input_type, entry, ran, agents, checkpoints, calls,
                   session_state>>

\* A sample button: session_state['selected_url'] is set and the script
\* runs again (lines 25-42).
SampleButton ==
    /\ Browsing
    /\ \E sample \in SampleUrls :
        /\ session_state' = Put(session_state, "selected_url", sample)
        /\ provided' = sample
    /\ scrape' = Unset
    /\ pc' = "browsing"
    /\ UNCHANGED <<response, extracted, result, metadata_json, validation, transcript,
                   field_name, field_value, cleaned, url, page, scraped, runtime, vision,
                   input_data, input_type, entry, ran, agents, checkpoints, calls,
                   text_box>>

\* The Scrape URL button (lines 45-67).
ScrapeButton ==
    /\ Browsing
    /\ \E api_key \in ApiKeys :
        scrape' = ScrapeHandler(UrlInput(text_box, session_state), api_key)
    /\ pc' = "browsing"
    /\ UNCHANGED <<response, extracted, result, metadata_json, validation, transcript,
                   field_name, field_value, cleaned, url, page, scraped, runtime, vision,
                   input_data, input_type, entry, ran, agents, checkpoints, calls,
                   text_box, session_state, provided>>

Next ==
    \/ EditUrl
    \/ SampleButton
    \/ ScrapeButton
    \/ NewAgent
    \/ CallExtract
    \/ CallExtractMetadata
    \/ ModelTurn
    \/ RunEntryPoint
    \/ VisionExtractor
    \/ Scraper
    \/ Cleaner
    \/ Extract
    \/ SchemaValidator
    \/ Invoke
    \/ CallValidator
    \/ CallOtherTool
    \/ Finish

Spec == Init /\ [][Next]_vars

(* ------------------------------------------------------------------ *)
(* Properties of extract                                              *)
(* ------------------------------------------------------------------ *)

\* extract has returned a mapping that is no {error} record
Success ==
    /\ pc = "extracted"
    /\ result.kind = "return"
    /\ "error" \notin DOMAIN result.value.d

NonEmptyStr(v) == v.py = "str" /\ "s" \in DOMAIN v /\ Len(v.s) > 0

\* the optional fields of a mapping that hold a non-empty value
NonEmptyOptional(d) ==
    {f \in {"brand", "category", "color", "material", "dimensions"} :
        f \in DOMAIN d /\ NonEmptyStr(d[f])}

\* C1: every record that extract returns and that is no {error} record has a
\* title key with a non-empty value.
Cex_C1 ==
    Success =>
        /\ "title" \in DOMAIN result.value.d
        /\ NonEmptyStr(result.value.d["title"])

\* a value a strategy can use: a ProductMetadata instance or a non-empty mapping
UsableRecord(v) == IsDataclass(v) \/ (IsDict(v) /\ DOMAIN v.d # {})

\* the final message of a response has a text
HasFinalText(resp) ==
    /\ "messages" \in DOMAIN resp
    /\ Len(resp["messages"].l) > 0
    /\ "content" \in resp["messages"].l[Len(resp["messages"].l)].attrs
    /\ IsStr(resp["messages"].l[Len(resp["messages"].l)].content)

FinalText(resp) == resp["messages"].l[Len(resp["messages"].l)].content

\* none of the three strategies has anything to use
NothingUsable(resp) ==
    /\ ~("structured_response" \in DOMAIN resp
           /\ UsableRecord(resp["structured_response"]))
    /\ ~("output" \in DOMAIN resp /\ UsableRecord(resp["output"]))
    /\ ~(HasFinalText(resp)
           /\ \E i \in 1..Len(FinalText(resp).segments) :
                /\ FinalText(resp).segments[i].braces
                /\ FinalText(resp).segments[i].loads # JSONDecodeError
                /\ UsableRecord(FinalText(resp).segments[i].loads))

\* C2: when no strategy yields a record, extract returns an {error} record
\* that carries the text of the final message.
Cex_C2 ==
    (pc = "extracted" /\ response.kind = "return" /\ NothingUsable(response.value)) =>
        /\ result.kind = "return"
        /\ "error" \in DOMAIN result.value.d
        /\ HasFinalText(response.value) =>
             \E k \in DOMAIN result.value.d :
                result.value.d[k] = FinalText(response.value)

\* C3: extract never lets an exception escape; it returns a mapping.
Cex_C3 == pc = "extracted" => (result.kind = "return" /\ IsDict(result.value))

\* the record was extracted with no confidence_score, or with one of 0.0
NoScore(d) ==
    "confidence_score" \notin DOMAIN d \/ d["confidence_score"] = Float(0)

ExpectedScore == <<Float(0), Float(20), Float(40), Float(60), Float(80), Float(100)>>

\* C4: a record extracted with k of the five optional fields non-empty and
\* with confidence_score absent or 0.0 is returned with confidence_score
\* round(0.20 * k, 2), whatever its title and description.
Thm_C4 ==
    (pc = "extracted" /\ extracted.kind = "return" /\ Truthy(extracted.value)
        /\ NoScore(extracted.value.d)) =>
        /\ result.kind = "return"
        /\ result.value.d["confidence_score"] =
              ExpectedScore[Cardinality(NonEmptyOptional(extracted.value.d)) + 1]

\* a record with title and description and three optional fields, without a
\* score, returned with 0.60
Witness_C4 ==
    /\ pc = "extracted"
    /\ extracted.kind = "return"
    /\ Truthy(extracted.value)
    /\ "confidence_score" \notin DOMAIN extracted.value.d
    /\ Cardinality(NonEmptyOptional(extracted.value.d)) = 3
    /\ "title" \in DOMAIN extracted.value.d
    /\ NonEmptyStr(extracted.value.d["title"])
    /\ "description" \in DOMAIN extracted.value.d
    /\ result.value.d["confidence_score"] = Float(60)

\* C5: every record that extract returns and that is no {error} record has a
\* confidence_score that is a number in [0.0, 1.0].
Cex_C5 ==
    Success =>
        /\ "confidence_score" \in DOMAIN result.value.d
        /\ result.value.d["confidence_score"].py = "float"
        /\ result.value.d["confidence_score"].hundredths \in 0..100

\* the record was extracted with a score that is a number in [0.0, 1.0]
ScoreInRange(d) ==
    /\ "confidence_score" \in DOMAIN d
    /\ d["confidence_score"].py = "float"
    /\ d["confidence_score"].hundredths \in 0..100

\* C6 as stated: the returned confidence_score is 0.20 per non-empty optional
\* field, whatever score the record came with (here: any score in [0.0, 1.0]).
Cex_C6 ==
    (Success /\ ScoreInRange(extracted.value.d)) =>
        /\ "confidence_score" \in DOMAIN result.value.d
        /\ result.value.d["confidence_score"] =
              Float(20 * Cardinality(NonEmptyOptional(result.value.d)))

\* C6: the returned confidence_score is a function of the set of non-empty
\* optional fields and of the score the record came with: 0.20 per field when
\* that score is absent or 0.0, and that score itself otherwise.
Thm_C6 ==
    Success =>
        /\ "confidence_score" \in DOMAIN result.value.d
        /\ result.value.d["confidence_score"] =
              IF NoScore(extracted.value.d)
              THEN Float(20 * Cardinality(NonEmptyOptional(result.value.d)))
              ELSE extracted.value.d["confidence_score"]

\* a record that came with 0.40 and no optional field is returned with 0.40
Witness_C6 ==
    /\ Success
    /\ "confidence_score" \in DOMAIN extracted.value.d
    /\ extracted.value.d["confidence_score"] = Float(40)
    /\ NonEmptyOptional(result.value.d) = {}
    /\ result.value.d["confidence_score"] = Float(40)

(* ------------------------------------------------------------------ *)
(* Properties of schema_validator_tool                                *)
(* ------------------------------------------------------------------ *)

\* the tool was given a well-formed record (a JSON object)
Validated == pc = "validated" /\ metadata_json # Malformed /\ IsDict(metadata_json.value)

Candidate == metadata_json.value.d

\* title: key absent, value null, or value empty
TitleMissing(data) ==
    \/ "title" \notin DOMAIN data
    \/ data["title"] = None
    \/ data["title"] = Str(<<>>)

TitleShort(data) ==
    "title" \in DOMAIN data /\ IsStr(data["title"]) /\ Len(data["title"].s) < 3

\* the same letter, in either case
SameLetter(a, b) ==
    \/ a = b
    \/ \E j \in 1..Len(UpperCase) : {a, b} = {UpperCase[j], LowerCase[j]}

\* the value is a str that holds the phrase in some letter case
Mentions(v, phrase) ==
    /\ IsStr(v)
    /\ \E i \in 0..(Len(v.s) - Len(phrase)) :
          \A j \in 1..Len(phrase) : SameLetter(v.s[i + j], phrase[j])

UncertainFields(data) ==
    {k \in DOMAIN data :
        \E i \in 1..Len(hallucination_phrases) : Mentions(data[k], hallucination_phrases[i])}

\* C7: FAILED if an error was found, else PASSED with warnings if a warning
\* was found, else PASSED.
Cex_C7 ==
    Validated =>
        validation.head =
            IF TitleMissing(Candidate) \/ TitleShort(Candidate) THEN "Validation FAILED"
            ELSE IF UncertainFields(Candidate) # {} THEN "Validation PASSED with warnings"
            ELSE "Validation PASSED"

\* C8: a record whose title is missing (key absent, null or empty) is FAILED
\* with an error that names title.
Cex_C8 ==
    (Validated /\ TitleMissing(Candidate)) =>
        /\ validation.head = "Validation FAILED"
        /\ \E i \in 1..Len(validation.lines) :
              validation.lines[i] = MissingRequired("title")

\* title is a str of at least 3 characters and no other field holds a value
OnlyTitle(data) ==
    /\ "title" \in DOMAIN data
    /\ IsStr(data["title"])
    /\ Len(data["title"].s) >= 3
    /\ \A k \in DOMAIN data \ {"title"} : data[k] \in {None, Str(<<>>)}

\* C9 as stated: a record with a title of at least 3 characters and no other
\* field populated is PASSED without warnings.
Cex_C9 ==
    (Validated /\ OnlyTitle(Candidate)) => validation = Outcome("Validation PASSED", <<>>)

\* C9: a record with a title of at least 3 characters that holds none of the
\* uncertainty phrases, and no other field populated, is PASSED without
\* warnings.
Thm_C9 ==
    (Validated /\ OnlyTitle(Candidate) /\ "title" \notin UncertainFields(Candidate)) =>
        validation = Outcome("Validation PASSED", <<>>)

\* a title of exactly 3 characters, alone in the record, is PASSED
Witness_C9 ==
    /\ Validated
    /\ OnlyTitle(Candidate)
    /\ Len(Candidate["title"].s) = 3
    /\ "title" \notin UncertainFields(Candidate)
    /\ validation.head = "Validation PASSED"

NotVisible == hallucination_phrases[1]

NotVisibleFields(data) == {k \in DOMAIN data : Mentions(data[k], NotVisible)}

WarnsOf(field, value) ==
    \E i \in 1..Len(validation.lines) : validation.lines[i] = Uncertain(field, value)

\* C10 as stated: every str field that holds "not visible" in some letter case
\* has a warning naming it in the result.
Cex_C10 ==
    Validated =>
        \A k \in NotVisibleFields(Candidate) : WarnsOf(k, Candidate[k])

\* C10: in a record whose title is a str of at least 3 characters, every str
\* field that holds "not visible" in some letter case has a warning naming it
\* in the result, which is PASSED with warnings.
Thm_C10 ==
    (Validated /\ ~TitleMissing(Candidate) /\ ~TitleShort(Candidate)) =>
        \A k \in NotVisibleFields(Candidate) :
            /\ validation.head = "Validation PASSED with warnings"
            /\ WarnsOf(k, Candidate[k])

\* a valid title and a brand in capitals that is not visible: a warning
Witness_C10 ==
    /\ Validated
    /\ ~TitleMissing(Candidate) /\ ~TitleShort(Candidate)
    /\ "brand" \in NotVisibleFields(Candidate)
    /\ ~Contains(NotVisible, Candidate["brand"].s)
    /\ validation.head = "Validation PASSED with warnings"
    /\ WarnsOf("brand", Candidate["brand"])

\* the characters of a str once leading and trailing blanks are removed
Trimmed(s) ==
    LET inked == {i \in 1..Len(s) : s[i] # " "}
    IN  IF inked = {} THEN <<>>
        ELSE SubSeq(s, CHOOSE i \in inked : \A j \in inked : i <= j,
                       CHOOSE i \in inked : \A j \in inked : j <= i)

HasLine(line) == \E i \in 1..Len(validation.lines) : validation.lines[i] = line

\* C11: a title of fewer than 3 characters once trimmed is FAILED with the
\* title-too-short error.
Cex_C11 ==
    (Validated /\ "title" \in DOMAIN Candidate /\ IsStr(Candidate["title"])
        /\ Len(Trimmed(Candidate["title"].s)) < 3) =>
        /\ validation.head = "Validation FAILED"
        /\ HasLine(TitleTooShort)

\* the text given to the tool is no well-formed record
NotARecord == metadata_json = Malformed \/ ~IsDict(metadata_json.value)

\* C12: the tool returns a string on every input, and an input that is no
\* well-formed record gets 'Invalid JSON' or 'Validation error', never
\* FAILED or PASSED.
Thm_C12 ==
    pc = "validated" =>
        /\ "head" \in DOMAIN validation
        /\ NotARecord => validation.head \in {"Invalid JSON", "Validation error"}
        /\ metadata_json = Malformed => validation.head = "Invalid JSON"

\* a JSON list was given and reported as a validation error
Witness_C12 ==
    /\ pc = "validated"
    /\ metadata_json # Malformed
    /\ metadata_json.value.py = "list"
    /\ validation.head = "Validation error"

IsErrorLine(line) == line = TitleTooShort \/ line = MissingRequired("title")

IsWarningLine(line) == line.text = "may contain uncertain data"

\* C13: a FAILED result lists errors only, even when uncertainty phrases were
\* matched, and a PASSED-with-warnings result lists warnings only.
Thm_C13 ==
    Validated =>
        /\ validation.head = "Validation FAILED" =>
              /\ Len(validation.lines) > 0
              /\ \A i \in 1..Len(validation.lines) : IsErrorLine(validation.lines[i])
        /\ validation.head = "Validation PASSED with warnings" =>
              /\ Len(validation.lines) > 0
              /\ \A i \in 1..Len(validation.lines) : IsWarningLine(validation.lines[i])
        /\ validation.head \notin {"Validation FAILED", "Validation PASSED with warnings"} =>
              validation.lines = <<>>

\* a record without title whose brand is not visible: FAILED, no warning line
Witness_C13 ==
    /\ Validated
    /\ TitleMissing(Candidate)
    /\ "brand" \in UncertainFields(Candidate)
    /\ validation.head = "Validation FAILED"
    /\ \A i \in 1..Len(validation.lines) : ~IsWarningLine(validation.lines[i])

\* C14: when the structured_response key holds nothing usable and the output
\* key holds a usable record, the result is the output record.
Cex_C14 ==
    (/\ pc = "extracted"
     /\ response.kind = "return"
     /\ "structured_response" \in DOMAIN response.value
     /\ ~UsableRecord(response.value["structured_response"])
     /\ "output" \in DOMAIN response.value
     /\ IsDict(response.value["output"])
     /\ UsableRecord(response.value["output"])) =>
        /\ result.kind = "return"
        /\ "error" \notin DOMAIN result.value.d
        /\ \A k \in DOMAIN response.value["output"].d \ {"confidence_score"} :
              /\ k \in DOMAIN result.value.d
              /\ result.value.d[k] = response.value["output"].d[k]

(* ------------------------------------------------------------------ *)
(* Properties of a run of the agent                                   *)
(* ------------------------------------------------------------------ *)

\* the positions of the validator's results in the transcript
ValidatorCalls == {i \in 1..Len(transcript) : transcript[i].tool = "schema_validator_tool"}

Passing == {"Validation PASSED", "Validation PASSED with warnings"}

\* the run has returned a mapping that is no {error} record
RunSuccess ==
    /\ pc = "returned"
    /\ result.kind = "return"
    /\ "error" \notin DOMAIN result.value.d

\* C15: a run returns a non-error record only when the validator was called
\* and its most recent result was PASSED or PASSED with warnings.
Cex_C15 ==
    RunSuccess =>
        /\ ValidatorCalls # {}
        /\ transcript[CHOOSE i \in ValidatorCalls : \A j \in ValidatorCalls : j <= i].head
              \in Passing

\* C16: a run that returns a record although validation never passed returns
\* it annotated as unfinalized, that is with a key beyond the fields of
\* ProductMetadata and the raw text.
Cex_C16 ==
    (RunSuccess /\ \A i \in ValidatorCalls : transcript[i].head \notin Passing) =>
        \E k \in DOMAIN result.value.d : k \notin ProductMetadataFields \cup {"raw_response"}

\* C17: when the validator returned FAILED in a run, the validator is called
\* again after the first FAILED before the run ends.
Cex_C17 ==
    (pc = "returned"
        /\ \E i \in ValidatorCalls : transcript[i].head = "Validation FAILED") =>
        LET first == CHOOSE i \in ValidatorCalls :
                        /\ transcript[i].head = "Validation FAILED"
                        /\ \A j \in ValidatorCalls :
                              transcript[j].head = "Validation FAILED" => i <= j
        IN  \E j \in ValidatorCalls : j > first

(* ------------------------------------------------------------------ *)
(* Properties of cleaner_tool                                         *)
(* ------------------------------------------------------------------ *)

\* w is the word f, in any letter case
Spells(w, f) ==
    /\ Len(w) = Len(f)
    /\ \A j \in 1..Len(f) : SameLetter(w[j], f[j])

\* cleaner_tool was given a str for the field f, named in any letter case
CleanedFor(f) == pc = "cleaned" /\ Spells(field_name, f) /\ IsStr(field_value)

\* the tokens of a str: its longest runs of letters, digits and underscores
Words(s) ==
    LET starts == {i \in 1..Len(s) : s[i] \in WordChars /\ (i = 1 \/ s[i - 1] \notin WordChars)}
        nth(k) == CHOOSE i \in starts : Cardinality({j \in starts : j < i}) = k - 1
        last(i) == CHOOSE j \in i..Len(s) :
                       /\ \A k \in i..j : s[k] \in WordChars
                       /\ (j = Len(s) \/ s[j + 1] \notin WordChars)
    IN  [k \in 1..Cardinality(starts) |-> SubSeq(s, nth(k), last(nth(k)))]

\* the str holds a run of three whitespace characters between two others
WideGap(s) ==
    \E i \in 2..(Len(s) - 3) :
        /\ \A k \in i..(i + 2) : s[k] \in Whitespace
        /\ s[i - 1] \notin Whitespace
        /\ s[i + 3] \notin Whitespace

\* C18: for the field names color, material and dimensions, in any letter
\* case, cleaning a cleaned value again gives the same value.
Thm_C18 ==
    (\/ CleanedFor(<<"c","o","l","o","r">>)
     \/ CleanedFor(<<"m","a","t","e","r","i","a","l">>)
     \/ CleanedFor(<<"d","i","m","e","n","s","i","o","n","s">>)) =>
        cleaner_tool(field_name, cleaned) = cleaned

Witness_C18 ==
    /\ CleanedFor(<<"c","o","l","o","r">>)
    /\ field_name # <<"c","o","l","o","r">>
    /\ WideGap(field_value.s)
    /\ \E k \in 1..Len(Words(field_value.s)) : Spells(Words(field_value.s)[k], <<"b","l","k">>)
    /\ cleaned # field_value

\* the words of the cleaned value are those of the given value, each one
\* rewritten by canon
WordsRewritten(canon(_)) ==
    LET given == Words(field_value.s)
    IN  Words(cleaned.s) = [k \in 1..Len(given) |-> canon(given[k])]

\* some word of the given value holds the abbreviation f inside a longer word
InsideLonger(f) ==
    \E k \in 1..Len(Words(field_value.s)) :
        /\ Len(Words(field_value.s)[k]) > Len(f)
        /\ Mentions(Str(Words(field_value.s)[k]), f)

ColorAbbreviation(w) ==
    IF Spells(w, <<"b","l","k">>) THEN <<"b","l","a","c","k">>
    ELSE IF Spells(w, <<"w","h","t">>) THEN <<"w","h","i","t","e">>
    ELSE IF Spells(w, <<"b","l","u">>) THEN <<"b","l","u","e">>
    ELSE IF Spells(w, <<"g","r","n">>) THEN <<"g","r","e","e","n">>
    ELSE w

ColorWord(w) == IF Spells(w, <<"r","e","d">>) THEN <<"r","e","d">> ELSE ColorAbbreviation(w)

ColorExample ==
    (field_name = <<"c","o","l","o","r">> /\ field_value = Str(<<"b","l","k"," ","t","o","p",","," ","w","h","t"," ","s","o","l","e">>)) =>
        cleaned = Str(<<"b","l","a","c","k"," ","t","o","p",","," ","w","h","i","t","e"," ","s","o","l","e">>)

\* C19 as stated: for color the whole tokens blk, wht, blu, grn (any letter
\* case) become black, white, blue, green and every other token stays as it
\* was; 'blk top, wht sole' becomes 'black top, white sole'.
Cex_C19 ==
    CleanedFor(<<"c","o","l","o","r">>) => (WordsRewritten(ColorAbbreviation) /\ ColorExample)

\* C19: for color the whole tokens blk, wht, blu, grn (any letter case)
\* become black, white, blue, green, the whole token red (any letter case)
\* becomes red in lower case, and every other token stays as it was;
\* 'blk top, wht sole' becomes 'black top, white sole'.
Thm_C19 ==
    CleanedFor(<<"c","o","l","o","r">>) => (WordsRewritten(ColorWord) /\ ColorExample)

Witness_C19 ==
    /\ CleanedFor(<<"c","o","l","o","r">>)
    /\ InsideLonger(<<"b","l","k">>)
    /\ \E k \in 1..Len(Words(field_value.s)) : Spells(Words(field_value.s)[k], <<"b","l","k">>)
    /\ \E k \in 1..Len(Words(field_value.s)) :
          /\ Spells(Words(field_value.s)[k], <<"r","e","d">>)
          /\ Words(field_value.s)[k] # <<"r","e","d">>
    /\ cleaned # field_value

UnitWord(w) ==
    IF Spells(w, <<"i","n","c","h","e","s">>) THEN <<"i","n">>
    ELSE IF Spells(w, <<"c","e","n","t","i","m","e","t","e","r","s">>) THEN <<"c","m">>
    ELSE IF Spells(w, <<"m","i","l","l","i","m","e","t","e","r","s">>) THEN <<"m","m">>
    ELSE w

\* C20: for dimensions the whole tokens inches, centimeters, millimeters (any
\* letter case) become in, cm, mm and no other token changes;
\* '10 inches by 5 centimeters' becomes '10 in by 5 cm'.
Thm_C20 ==
    CleanedFor(<<"d","i","m","e","n","s","i","o","n","s">>) =>
        /\ WordsRewritten(UnitWord)
        /\ (field_name = <<"d","i","m","e","n","s","i","o","n","s">>
              /\ field_value = Str(<<"1","0"," ","i","n","c","h","e","s"," ","b","y"," ","5"," ","c","e","n","t","i","m","e","t","e","r","s">>)) =>
                cleaned = Str(<<"1","0"," ","i","n"," ","b","y"," ","5"," ","c","m">>)

Witness_C20 ==
    /\ CleanedFor(<<"d","i","m","e","n","s","i","o","n","s">>)
    /\ InsideLonger(<<"i","n","c","h","e","s">>)
    /\ \E k \in 1..Len(Words(field_value.s)) :
          /\ Spells(Words(field_value.s)[k], <<"c","e","n","t","i","m","e","t","e","r","s">>)
          /\ Words(field_value.s)[k] # <<"c","e","n","t","i","m","e","t","e","r","s">>
    /\ cleaned # field_value

\* the field name is none of color, material, dimensions, in any letter case
Unrecognized ==
    /\ ~Spells(field_name, <<"c","o","l","o","r">>)
    /\ ~Spells(field_name, <<"m","a","t","e","r","i","a","l">>)
    /\ ~Spells(field_name, <<"d","i","m","e","n","s","i","o","n","s">>)

\* C21: for a field name other than color, material, dimensions the value is
\* returned character for character, and for every field name an empty or
\* falsy value is returned as it was.
Cex_C21 ==
    pc = "cleaned" =>
        /\ Unrecognized => cleaned = field_value
        /\ (field_value = None \/ field_value = Str(<<>>)) => cleaned = field_value

(* ------------------------------------------------------------------ *)
(* Properties of html_scraper_tool and vision_extractor_tool          *)
(* ------------------------------------------------------------------ *)

\* the tool has returned a block for a fetched page
Fetched == pc = "scraped" /\ "content" \in DOMAIN scraped

\* C22: when the visible text of the fetched page is longer than 5000
\* characters, the content of the returned block is exactly its first 5000
\* characters, whatever they are.
Cex_C22 ==
    (Fetched /\ RunsLen(page.text) > 5000) =>
        /\ RunsLen(scraped.content) = 5000
        /\ scraped.content = Slice(page.text, 5000)

\* what went wrong in the call of html_scraper_tool, if anything
NetworkFailure == page.get # "ok"

ParseFailure == page.get = "ok" /\ page.parse # "ok"

\* the tool's result is a str that reports an error
ErrorString(r) == r.kind = "return" /\ "error" \in DOMAIN r

VisionFailure ==
    /\ Get(runtime.state, "input_type") = Str(<<"i","m","a","g","e">>)
    /\ (runtime.llm.init # "ok" \/ runtime.llm.invoke # "ok")

\* both tools return, and return an error string when httpFailure or one of
\* the other failures happened
FailuresAreData(httpFailure) ==
    /\ pc = "scraped" =>
        /\ scraped.kind = "return"
        /\ (NetworkFailure \/ httpFailure \/ ParseFailure) => ErrorString(scraped)
    /\ pc = "vision" =>
        /\ vision.kind = "return"
        /\ VisionFailure => ErrorString(vision)

WellFormedInput ==
    /\ input_type \in {Str(<<"i","m","a","g","e">>), Str(<<"u","r","l">>), Str(<<"t","e","x","t">>)}
    /\ IsStr(input_data)
    /\ Len(input_data.s) > 0

\* C24: the agent and its tools are invoked only for a payload that is
\* present, non-empty and of a kind in {image, url, text}.
Cex_C24 == pc \in {"agent", "returned"} => WellFormedInput

MissingCredentialMessages ==
    {"API Key Missing", "Please configure API Key first.",
     "WARNING: GOOGLE_API_KEY not found in environment"}

\* C25: when GOOGLE_API_KEY is absent, a run of any entry point shows a
\* missing-credential message and attempts no extraction and no agent call.
Cex_C25 ==
    (pc = "ran" /\ entry.api_key = None) =>
        /\ ran.shown \cap MissingCredentialMessages # {}
        /\ ~ran.extraction
        /\ ~ran.invoked

(* ------------------------------------------------------------------ *)
(* Properties of runs on agents and threads                           *)
(* ------------------------------------------------------------------ *)

\* C26: two runs with distinct thread_ids, on one agent or on two, however
\* they interleave, see only their own messages: neither the transcript of
\* one nor the state saved for its thread holds a message of the other.
Thm_C26 ==
    \A n, m \in 1..Len(calls) :
        (n # m /\ calls[n].thread_id # calls[m].thread_id) =>
            /\ m \notin CallsIn(calls[n].messages)
            /\ m \notin CallsIn(checkpoints[<<calls[n].agent, calls[n].thread_id>>])

Witness_C26 ==
    \E n, m \in 1..Len(calls) :
        /\ m < n
        /\ calls[n].agent = calls[m].agent
        /\ calls[n].thread_id # calls[m].thread_id
        /\ calls[m].stage = "running"
        /\ calls[n].stage = "done"
        /\ Len(calls[n].messages) = 2

\* C27: the transcript given to the agent in a call of extract holds only
\* that call's own messages, with a new agent for each call and with
\* repeated calls on one agent and the default thread_id alike.
Cex_C27 ==
    \A n \in 1..Len(calls) :
        calls[n].thread_id = "default" => CallsIn(calls[n].messages) = {n}

(* ------------------------------------------------------------------ *)
(* Confidence and validation                                          *)
(* ------------------------------------------------------------------ *)

\* the optional fields whose value holds one of the validator's phrases, in
\* any letter case
FlaggedOptional(d) ==
    {f \in NonEmptyOptional(d) :
        \E i \in 1..Len(hallucination_phrases) : Mentions(d[f], hallucination_phrases[i])}

\* C29: when extract recomputes the score, an optional field whose value the
\* validator would flag as uncertain is not counted: the score is 0.20 for
\* each optional field that is non-empty and not flagged.
Cex_C29 ==
    (pc = "extracted" /\ extracted.kind = "return" /\ Truthy(extracted.value)
        /\ NoScore(extracted.value.d)) =>
        /\ result.kind = "return"
        /\ result.value.d["confidence_score"] =
              ExpectedScore[Cardinality(NonEmptyOptional(extracted.value.d)
                                            \ FlaggedOptional(extracted.value.d)) + 1]

(* ------------------------------------------------------------------ *)
(* Precondition of vision_extractor_tool                              *)
(* ------------------------------------------------------------------ *)

\* the input_type of the run's state is not the str 'image'
OtherInputType ==
    \/ "input_type" \notin DOMAIN runtime.state
    \/ runtime.state["input_type"] # Str(<<"i","m","a","g","e">>)

\* C28: when the input_type of the run is not 'image' the tool returns
\* 'Error: Vision tool requires image input' and neither initialises nor
\* invokes the vision model.
Thm_C28 ==
    (pc = "vision" /\ OtherInputType) =>
        /\ ErrorString(vision)
        /\ vision.error = "Error: Vision tool requires image input"
        /\ ~vision.initialised
        /\ ~vision.invoked

Witness_C28 ==
    /\ pc = "vision"
    /\ runtime.state = [input_type |-> Str(<<"u","r","l">>), input_data |-> Str(Blurb)]
    /\ runtime.llm.init = "ok"
    /\ runtime.llm.invoke = "ok"
    /\ vision.error = "Error: Vision tool requires image input"

(* ------------------------------------------------------------------ *)
(* Properties of the URL Scraping page                                *)
(* ------------------------------------------------------------------ *)

\* C30: the URL that Scrape passes to extract_metadata is the one the user
\* chose or typed last; a sample chosen earlier does not replace a URL typed
\* after it.
Cex_C30 ==
    (pc = "browsing" /\ scrape # Unset /\ "input_data" \in DOMAIN scrape
        /\ Truthy(provided)) =>
        scrape.input_data = provided

====
